---- MODULE Spec2Model ----
(***************************************************************************)
(* typeinfer: schema inference (src/utils/inferSchema.ts), the two         *)
(* renderers (generators/typescript.ts, generators/jsonSchema.ts) and the  *)
(* orchestration of processGeneration (the CLI entry point).               *)
(*                                                                         *)
(* JavaScript values, schema nodes and JSON documents are records with a   *)
(* fixed set of fields; an optional field f of the source is a pair        *)
(* (hasF, f).  JavaScript objects keep their keys in insertion order, so a *)
(* mapping is a sequence of [key, value] entries with distinct keys.       *)
(* Text is a sequence of tokens (words and punctuation), white space       *)
(* dropped.                                                                *)
(***************************************************************************)
EXTENDS Integers, Sequences, FiniteSets, TLC

\* ------------------------------------------------------------------------
\* Bounds of the model
\* ------------------------------------------------------------------------
\* longest array of scalars taken as input
MaxLen == 3
\* longest list of schemas handed to mergeSchemas directly
MaxMerge == 3

\* ------------------------------------------------------------------------
\* Input values (what JSON.parse, the CSV reader or a library caller hands
\* to inferSchema)
\* ------------------------------------------------------------------------
Keys == {"a", "b"}

PlainText == "x"
DateTimeText == "2024-01-01T00:00:00Z"
EmailText == "user@example.com"
UuidText == "123e4567-e89b-12d3-a456-426614174000"

\* numbers are held in tenths, so that 10 is 1 and 15 is 1.5
Blank == [kind |-> "undefined", text |-> "", tenths |-> 0, elems |-> <<>>, fields |-> <<>>]
Undefined == Blank
Null == [Blank EXCEPT !.kind = "null"]
Bool == [Blank EXCEPT !.kind = "boolean"]
Num(t) == [Blank EXCEPT !.kind = "number", !.tenths = t]
Str(s) == [Blank EXCEPT !.kind = "string", !.text = s]
Arr(es) == [Blank EXCEPT !.kind = "array", !.elems = es]
Obj(fs) == [Blank EXCEPT !.kind = "object", !.fields = fs]

Entry(k, v) == [key |-> k, value |-> v]

SeqsUpTo(S, n) == UNION {[1..k -> S] : k \in 0..n}

\* the orders in which an object can hold keys of Keys
KeySeqs == {ks \in SeqsUpTo(Keys, Cardinality(Keys)) :
              \A i, j \in 1..Len(ks) : i # j => ks[i] # ks[j]}

ObjectsOver(S) ==
  UNION {{Obj([i \in 1..Len(ks) |-> Entry(ks[i], f[i])]) : f \in [1..Len(ks) -> S]} :
         ks \in KeySeqs}

ScalarValues == {Null, Undefined, Bool, Num(10), Num(15), Str(PlainText),
                 Str(DateTimeText), Str(EmailText), Str(UuidText)}

\* scalars used below the top level of a nested input
Atoms == {Num(10), Str(PlainText), Undefined}

FlatValues == ScalarValues \cup {Arr(es) : es \in SeqsUpTo(ScalarValues, MaxLen)}
                \cup ObjectsOver(ScalarValues)

InnerValues == Atoms \cup {Arr(<<>>)} \cup {Arr(<<x>>) : x \in Atoms}
                 \cup {Arr(<<x, y>>) : x, y \in Atoms} \cup ObjectsOver(Atoms)

NestedValues == {Arr(<<x>>) : x \in InnerValues} \cup {Arr(<<x, y>>) : x, y \in InnerValues}
                  \cup ObjectsOver(InnerValues)

\* objects that differ in whether "a" is undefined, null or a number, the
\* arrays of one or two of them, and the arrays of two such arrays
Shapes == {Obj(<<Entry("a", Undefined)>>), Obj(<<Entry("a", Null)>>),
           Obj(<<Entry("a", Num(10))>>)}

ShapeArrays == {Arr(<<x>>) : x \in Shapes} \cup {Arr(<<x, y>>) : x, y \in Shapes}

DeepValues == ShapeArrays \cup {Arr(<<x, y>>) : x, y \in ShapeArrays}

InputValues == FlatValues \cup NestedValues \cup DeepValues

\* ------------------------------------------------------------------------
\* SchemaType and JSON.stringify of a SchemaType
\* ------------------------------------------------------------------------
SchemaType(t) ==
  [type |-> t, hasProperties |-> FALSE, properties |-> <<>>,
   hasItems |-> FALSE, items |-> <<>>, format |-> "",
   hasRequired |-> FALSE, required |-> <<>>, hasEnum |-> FALSE, enum |-> <<>>]

RECURSIVE Concat(_)
Concat(ss) == IF Len(ss) = 0 THEN <<>> ELSE Head(ss) \o Concat(Tail(ss))

\* The serialisation walks the keys in the order the object literals of
\* inferSchema.ts set them: type, then properties and required (object),
\* format (string), items (array), enum (union); undefined fields are left out.
RECURSIVE JsonStringify(_)
JsonStringify(s) ==
  <<"{", "type", s.type>>
  \o (IF s.hasItems THEN <<"items">> \o JsonStringify(s.items[1]) ELSE <<>>)
  \o (IF s.hasProperties
        THEN <<"properties", "{">>
             \o Concat([i \in 1..Len(s.properties) |->
                          <<s.properties[i].key>> \o JsonStringify(s.properties[i].value)])
             \o <<"}">>
        ELSE <<>>)
  \o (IF s.hasRequired THEN <<"required", "[">> \o s.required \o <<"]">> ELSE <<>>)
  \o (IF s.format # "" THEN <<"format", s.format>> ELSE <<>>)
  \o (IF s.hasEnum
        THEN <<"enum", "[">>
             \o Concat([i \in 1..Len(s.enum) |-> JsonStringify(s.enum[i])])
             \o <<"]">>
        ELSE <<>>)

\* ------------------------------------------------------------------------
\* inferSchema.ts
\* ------------------------------------------------------------------------
\* the three regular expressions of inferPrimitiveSchema, by the sample
\* strings they accept
MatchesDateTime(text) == text \in {DateTimeText}
MatchesEmail(text) == text \in {EmailText}
MatchesUuid(text) == text \in {UuidText}

IsInteger(tenths) == tenths % 10 = 0

inferPrimitiveSchema(value) ==
  IF value.kind = "string"
    THEN IF MatchesDateTime(value.text) THEN [SchemaType("string") EXCEPT !.format = "date-time"]
         ELSE IF MatchesEmail(value.text) THEN [SchemaType("string") EXCEPT !.format = "email"]
         ELSE IF MatchesUuid(value.text) THEN [SchemaType("string") EXCEPT !.format = "uuid"]
         ELSE SchemaType("string")
  ELSE IF value.kind = "number"
    THEN IF IsInteger(value.tenths) THEN SchemaType("integer") ELSE SchemaType("number")
  ELSE IF value.kind = "boolean" THEN SchemaType("boolean")
  ELSE SchemaType(value.kind)

\* schemas.forEach(...) of mergeSchemas: the schemas whose serialisation was
\* not seen before, in the order met
RECURSIVE uniqueSchemas(_, _)
uniqueSchemas(schemas, seen) ==
  IF Len(schemas) = 0 THEN <<>>
  ELSE LET sString == JsonStringify(Head(schemas))
       IN IF sString \in seen
            THEN uniqueSchemas(Tail(schemas), seen)
            ELSE <<Head(schemas)>> \o uniqueSchemas(Tail(schemas), seen \cup {sString})

\* mergeSchemas comparing the type tags only
RECURSIVE uniqueByType(_, _)
uniqueByType(list, seen) ==
  IF Len(list) = 0 THEN <<>>
  ELSE IF Head(list).type \in seen
    THEN uniqueByType(Tail(list), seen)
    ELSE <<Head(list)>> \o uniqueByType(Tail(list), seen \cup {Head(list).type})

mergeSchemas_ByType(list) ==
  IF Len(list) = 0 THEN SchemaType("any")
  ELSE IF Len(uniqueByType(list, {})) = 1 THEN list[1]
  ELSE [SchemaType("union") EXCEPT !.hasEnum = TRUE, !.enum = uniqueByType(list, {})]

\* mergeSchemas without the shortcuts for one schema and for equal schemas
mergeSchemas_AlwaysUnion(list) ==
  IF Len(list) = 0 THEN SchemaType("any")
  ELSE [SchemaType("union") EXCEPT !.hasEnum = TRUE, !.enum = uniqueSchemas(list, {})]

\* mergeSchemas with another fallback for the empty list
mergeSchemas_EmptyNull(list) ==
  IF Len(list) = 0 THEN SchemaType("null")
  ELSE IF Len(uniqueSchemas(list, {})) = 1 THEN list[1]
  ELSE [SchemaType("union") EXCEPT !.hasEnum = TRUE, !.enum = uniqueSchemas(list, {})]

\* mergeSchemas comparing a schema with the one before it only
RECURSIVE uniqueOfNeighbours(_)
uniqueOfNeighbours(list) ==
  IF Len(list) <= 1 THEN list
  ELSE IF JsonStringify(list[1]) = JsonStringify(list[2])
    THEN uniqueOfNeighbours(Tail(list))
    ELSE <<Head(list)>> \o uniqueOfNeighbours(Tail(list))

mergeSchemas_Neighbours(list) ==
  IF Len(list) = 0 THEN SchemaType("any")
  ELSE IF Len(uniqueOfNeighbours(list)) = 1 THEN uniqueOfNeighbours(list)[1]
  ELSE [SchemaType("union") EXCEPT !.hasEnum = TRUE, !.enum = uniqueOfNeighbours(list)]

mergeSchemas(schemas) ==
  IF Len(schemas) = 0 THEN SchemaType("any")
  ELSE IF Len(schemas) = 1 THEN schemas[1]
  ELSE IF \A i \in 1..Len(schemas) : JsonStringify(schemas[i]) = JsonStringify(schemas[1])
    THEN schemas[1]
  ELSE LET unique == uniqueSchemas(schemas, {})
       IN IF Len(unique) = 1 THEN unique[1]
          ELSE [SchemaType("union") EXCEPT !.hasEnum = TRUE, !.enum = unique]

\* the array branch of inferSchema returning the merged item schema unwrapped
ArraySchema_Unwrapped(items) == items

ArraySchema(items) == [SchemaType("array") EXCEPT !.hasItems = TRUE, !.items = <<items>>]

\* required.length > 0 ? required : undefined
ObjectSchema(properties, required) ==
  [SchemaType("object") EXCEPT !.hasProperties = TRUE, !.properties = properties,
                               !.hasRequired = Len(required) > 0, !.required = required]

\* the keys pushed to required: those whose value is not undefined
PresentKeys(fields) ==
  LET present == SelectSeq(fields, LAMBDA f : f.value.kind # "undefined")
  IN [i \in 1..Len(present) |-> present[i].key]

RECURSIVE inferSchema(_)
inferSchema(data) ==
  IF data.kind \in {"null", "undefined"} THEN SchemaType("null")
  ELSE IF data.kind = "array"
    THEN IF Len(data.elems) = 0
           THEN ArraySchema(SchemaType("any"))
           ELSE ArraySchema(mergeSchemas([i \in 1..Len(data.elems) |-> inferSchema(data.elems[i])]))
  ELSE IF data.kind = "object"
    THEN ObjectSchema(
           [i \in 1..Len(data.fields) |->
              Entry(data.fields[i].key, inferSchema(data.fields[i].value))],
           PresentKeys(data.fields))
  ELSE inferPrimitiveSchema(data)

\* ------------------------------------------------------------------------
\* generators/typescript.ts
\* ------------------------------------------------------------------------
RECURSIVE Join(_, _)
Join(ss, sep) ==
  IF Len(ss) = 0 THEN <<>>
  ELSE IF Len(ss) = 1 THEN ss[1]
  ELSE ss[1] \o sep \o Join(Tail(ss), sep)

\* schema.required?.includes(key)
Includes(seq, x) == \E i \in 1..Len(seq) : seq[i] = x

\* the string case without the date-time branch
StringKeyword_NoDate(format) == <<"string">>

StringKeyword(format) == IF format = "date-time" THEN <<"Date">> ELSE <<"string">>

\* the marker computed without looking at inferOptional
OptionalMarker_IgnoresOption(schema, key, options) ==
  IF schema.hasRequired /\ Includes(schema.required, key) THEN <<>> ELSE <<"?">>

OptionalMarker(schema, key, options) ==
  LET isRequired == schema.hasRequired /\ Includes(schema.required, key)
  IN IF ~isRequired /\ options.inferOptional THEN <<"?">> ELSE <<>>

RECURSIVE generateTypeScriptFromSchema(_, _)
generateTypeScriptFromSchema(schema, options) ==
  CASE schema.type = "null" -> <<"null">>
    [] schema.type = "string" -> StringKeyword(schema.format)
    [] schema.type = "number" -> <<"number">>
    [] schema.type = "integer" -> <<"number">>
    [] schema.type = "boolean" -> <<"boolean">>
    [] schema.type = "array" ->
         (IF schema.hasItems
            THEN generateTypeScriptFromSchema(schema.items[1], options)
            ELSE <<"any">>) \o <<"[]">>
    [] schema.type = "object" ->
         IF ~schema.hasProperties THEN <<"Record", "<", "string", ",", "any", ">">>
         ELSE <<"{">>
              \o Concat([i \in 1..Len(schema.properties) |->
                    <<schema.properties[i].key>>
                    \o OptionalMarker(schema, schema.properties[i].key, options)
                    \o <<":">>
                    \o generateTypeScriptFromSchema(schema.properties[i].value, options)
                    \o <<";">>])
              \o <<"}">>
    [] schema.type = "union" ->
         IF schema.hasEnum
           THEN Join([i \in 1..Len(schema.enum) |->
                        generateTypeScriptFromSchema(schema.enum[i], options)], <<"|">>)
           ELSE <<"any">>
    [] OTHER -> <<"any">>

\* options.prettify is taken false: the formatter is an external pass over
\* the finished text, and its failure leaves the text as generated
generateTypeScript(schema, options) ==
  <<"interface", IF options.interfaceName # "" THEN options.interfaceName
                 ELSE "GeneratedInterface">>
  \o generateTypeScriptFromSchema(schema, options)

\* ------------------------------------------------------------------------
\* generators/jsonSchema.ts
\* ------------------------------------------------------------------------
JsonNode ==
  [schemaUri |-> "", title |-> "", hasType |-> FALSE, type |-> "", format |-> "",
   hasItems |-> FALSE, items |-> <<>>, hasProperties |-> FALSE, properties |-> <<>>,
   hasRequired |-> FALSE, required |-> <<>>, hasAnyOf |-> FALSE, anyOf |-> <<>>,
   description |-> ""]

TypeNode(t) == [JsonNode EXCEPT !.hasType = TRUE, !.type = t]

PropertyKeys(properties) == [i \in 1..Len(properties) |-> properties[i].key]

\* the required list taken from the recorded set whatever inferOptional is
JsonRequired_Recorded(schemaNode, options) ==
  IF schemaNode.hasRequired THEN schemaNode.required ELSE <<>>

\* the required list of an object node before the empty list is deleted
JsonRequired(schemaNode, options) ==
  IF options.inferOptional
    THEN IF schemaNode.hasRequired /\ Len(schemaNode.required) > 0
           THEN schemaNode.required ELSE <<>>
    ELSE IF schemaNode.hasProperties THEN PropertyKeys(schemaNode.properties) ELSE <<>>

\* the default case leaving the node empty
DefaultNode_Empty(type) == JsonNode

\* default: jsonSchemaNode.description = `Represents type: ${schemaNode.type}`
DefaultNode(type) == [JsonNode EXCEPT !.description = "Represents type: " \o type]

RECURSIVE generateJsonSchemaFromSchema(_, _)
generateJsonSchemaFromSchema(schemaNode, options) ==
  CASE schemaNode.type = "null" -> TypeNode("null")
    [] schemaNode.type = "string" -> [TypeNode("string") EXCEPT !.format = schemaNode.format]
    [] schemaNode.type = "number" -> TypeNode("number")
    [] schemaNode.type = "integer" -> TypeNode("integer")
    [] schemaNode.type = "boolean" -> TypeNode("boolean")
    [] schemaNode.type = "array" ->
         [TypeNode("array") EXCEPT
            !.hasItems = TRUE,
            !.items = <<IF schemaNode.hasItems
                          THEN generateJsonSchemaFromSchema(schemaNode.items[1], options)
                          ELSE JsonNode>>]
    [] schemaNode.type = "object" ->
         LET required == JsonRequired(schemaNode, options)
         IN [TypeNode("object") EXCEPT
               !.hasProperties = TRUE,
               !.properties =
                  [i \in 1..Len(schemaNode.properties) |->
                     Entry(schemaNode.properties[i].key,
                           generateJsonSchemaFromSchema(schemaNode.properties[i].value,
                                                        options))],
               !.hasRequired = Len(required) > 0,
               !.required = required]
    [] schemaNode.type = "union" ->
         IF schemaNode.hasEnum /\ Len(schemaNode.enum) > 0
           THEN [JsonNode EXCEPT
                   !.hasAnyOf = TRUE,
                   !.anyOf = [i \in 1..Len(schemaNode.enum) |->
                                generateJsonSchemaFromSchema(schemaNode.enum[i], options)]]
           ELSE [JsonNode EXCEPT
                   !.description = "Union type with no specific variants, effectively 'any'."]
    [] OTHER -> DefaultNode(schemaNode.type)

generateJsonSchema(schema, options) ==
  [generateJsonSchemaFromSchema(schema, options) EXCEPT
     !.schemaUri = "http://json-schema.org/draft-07/schema#",
     !.title = IF options.interfaceName # "" THEN options.interfaceName
               ELSE "GeneratedSchema"]

\* ------------------------------------------------------------------------
\* dedupeUnions, format typescript
\* ------------------------------------------------------------------------
\* every token that is not punctuation is a run of word characters (\w+)
Punctuation == {"{", "}", "?", ":", ";", "|", "[]", "<", ">", ",", "(", ")"}

IsWord(t) == t \notin Punctuation

\* the words of the texts in the order localeCompare puts them
WordOrder == <<"a", "any", "b", "boolean", "c", "data", "Date", "GeneratedInterface",
               "interface", "null", "number", "Record", "string">>

localeCompare(p1, p2) ==
  LET rank(w) == CHOOSE i \in 1..Len(WordOrder) : WordOrder[i] = w
  IN IF rank(p1) > rank(p2) THEN 1 ELSE IF rank(p1) < rank(p2) THEN -1 ELSE 0

\* Both patterns take a word as (\b\w+(?:\[\])?\b).  The optional "[]" is
\* never part of a match: the \b after it asks for a word character right
\* after "]", and the texts have ";", "[", white space or their end there.
\* So a group is a whole word, and a match is word, "|", word with nothing
\* but white space between.  replace(/.../g) takes the matches from left to
\* right and looks for the next one after the end of the last.

\* replace(/(\b\w+(?:\[\])?\b)\s*\|\s*\1(?!\w)/g, '$1')
RECURSIVE CollapseRepeats(_)
CollapseRepeats(text) ==
  IF Len(text) = 0 THEN <<>>
  ELSE IF Len(text) >= 3 /\ IsWord(text[1]) /\ text[2] = "|" /\ text[3] = text[1]
    THEN <<text[1]>> \o CollapseRepeats(SubSeq(text, 4, Len(text)))
  ELSE <<text[1]>> \o CollapseRepeats(Tail(text))

\* the second replace swapping every pair of different words
RECURSIVE SwapPairs_Always(_)
SwapPairs_Always(text) ==
  IF Len(text) = 0 THEN <<>>
  ELSE IF Len(text) >= 3 /\ IsWord(text[1]) /\ text[2] = "|" /\ IsWord(text[3])
    THEN (IF localeCompare(text[1], text[3]) # 0
            THEN <<text[3], "|", text[1]>>
            ELSE <<text[1], "|", text[3]>>)
         \o SwapPairs_Always(SubSeq(text, 4, Len(text)))
  ELSE <<text[1]>> \o SwapPairs_Always(Tail(text))

\* replace(/(\b\w+(?:\[\])?\b)\s*\|\s*(\b\w+(?:\[\])?\b)/g,
\*         (match, p1, p2) => p1.localeCompare(p2) > 0 ? `${p2} | ${p1}` : match)
RECURSIVE SwapPairs(_)
SwapPairs(text) ==
  IF Len(text) = 0 THEN <<>>
  ELSE IF Len(text) >= 3 /\ IsWord(text[1]) /\ text[2] = "|" /\ IsWord(text[3])
    THEN (IF localeCompare(text[1], text[3]) > 0
            THEN <<text[3], "|", text[1]>>
            ELSE <<text[1], "|", text[3]>>)
         \o SwapPairs(SubSeq(text, 4, Len(text)))
  ELSE <<text[1]>> \o SwapPairs(Tail(text))

\* the body of the do ... while loop
DedupePass(dedupedText) == SwapPairs(CollapseRepeats(dedupedText))

\* the loop left after its first turn
DedupeLoop_Once(dedupedText) == DedupePass(dedupedText)

\* do { previousText = dedupedText; ... } while (previousText !== dedupedText)
RECURSIVE DedupeLoop(_)
DedupeLoop(dedupedText) ==
  LET next == DedupePass(dedupedText)
  IN IF next = dedupedText THEN next ELSE DedupeLoop(next)

dedupeUnions(text) == DedupeLoop(text)

\* ------------------------------------------------------------------------
\* dedupeUnions, format jsonschema
\* ------------------------------------------------------------------------
\* JSON.stringify of a node of the parsed document.  The keys come in the
\* order generateJsonSchemaFromSchema set them; a node that took the keys
\* of its only anyOf member had no key of its own but anyOf, and so has
\* them in that order too.
RECURSIVE DocStringify(_)
DocStringify(n) ==
  <<"{">>
  \o (IF n.schemaUri # "" THEN <<"$schema", n.schemaUri>> ELSE <<>>)
  \o (IF n.title # "" THEN <<"title", n.title>> ELSE <<>>)
  \o (IF n.hasType THEN <<"type", n.type>> ELSE <<>>)
  \o (IF n.format # "" THEN <<"format", n.format>> ELSE <<>>)
  \o (IF n.hasItems THEN <<"items">> \o DocStringify(n.items[1]) ELSE <<>>)
  \o (IF n.hasProperties
        THEN <<"properties", "{">>
             \o Concat([i \in 1..Len(n.properties) |->
                          <<n.properties[i].key>> \o DocStringify(n.properties[i].value)])
             \o <<"}">>
        ELSE <<>>)
  \o (IF n.hasRequired THEN <<"required", "[">> \o n.required \o <<"]">> ELSE <<>>)
  \o (IF n.hasAnyOf
        THEN <<"anyOf", "[">>
             \o Concat([i \in 1..Len(n.anyOf) |-> DocStringify(n.anyOf[i])])
             \o <<"]">>
        ELSE <<>>)
  \o (IF n.description # "" THEN <<"description", n.description>> ELSE <<>>)
  \o <<"}">>

\* node.anyOf.filter(...): the members whose serialisation was not seen
RECURSIVE FilterAnyOf(_, _)
FilterAnyOf(anyOf, seen) ==
  IF Len(anyOf) = 0 THEN <<>>
  ELSE LET key == DocStringify(Head(anyOf))
       IN IF key \in seen
            THEN FilterAnyOf(Tail(anyOf), seen)
            ELSE <<Head(anyOf)>> \o FilterAnyOf(Tail(anyOf), seen \cup {key})

\* Object.assign(node, sub); delete node.anyOf
ObjectAssign(node, sub) ==
  [schemaUri |-> IF sub.schemaUri # "" THEN sub.schemaUri ELSE node.schemaUri,
   title |-> IF sub.title # "" THEN sub.title ELSE node.title,
   hasType |-> sub.hasType \/ node.hasType,
   type |-> IF sub.hasType THEN sub.type ELSE node.type,
   format |-> IF sub.format # "" THEN sub.format ELSE node.format,
   hasItems |-> sub.hasItems \/ node.hasItems,
   items |-> IF sub.hasItems THEN sub.items ELSE node.items,
   hasProperties |-> sub.hasProperties \/ node.hasProperties,
   properties |-> IF sub.hasProperties THEN sub.properties ELSE node.properties,
   hasRequired |-> sub.hasRequired \/ node.hasRequired,
   required |-> IF sub.hasRequired THEN sub.required ELSE node.required,
   hasAnyOf |-> FALSE,
   anyOf |-> <<>>,
   description |-> IF sub.description # "" THEN sub.description ELSE node.description]

\* the anyOf step of walk: filter, then take the place of a lone member
DedupeAnyOf(node) ==
  IF ~node.hasAnyOf THEN node
  ELSE LET filtered == FilterAnyOf(node.anyOf, {})
       IN IF Len(filtered) = 1
            THEN ObjectAssign(node, filtered[1])
            ELSE [node EXCEPT !.anyOf = filtered]

\* walk: the anyOf of the node first, then Object.values(node).forEach(walk)
RECURSIVE walk(_)
walk(node) ==
  LET own == DedupeAnyOf(node)
  IN [own EXCEPT
        !.items = [i \in 1..Len(own.items) |-> walk(own.items[i])],
        !.properties = [i \in 1..Len(own.properties) |->
                          Entry(own.properties[i].key, walk(own.properties[i].value))],
        !.anyOf = [i \in 1..Len(own.anyOf) |-> walk(own.anyOf[i])]]

\* ------------------------------------------------------------------------
\* custom fields of processGeneration
\* ------------------------------------------------------------------------
\* longest list of custom fields
MaxFields == 2

\* a field type is held as field.type.split('_')
CustomField(name, typeParts) == [name |-> name, type |-> typeParts]

CustomFields ==
  {CustomField(n, t) : n \in {"a", "c"},
                       t \in {<<"string">>, <<"object">>, <<"array", "number">>}}

\* field.type.startsWith('array_')
StartsWithArray(type) == Len(type) >= 2 /\ type[1] = "array"

fieldSchemaType(field) ==
  IF StartsWithArray(field.type) THEN ArraySchema(SchemaType(field.type[2]))
  ELSE IF field.type = <<"object">> THEN [SchemaType("object") EXCEPT !.hasProperties = TRUE]
  ELSE SchemaType(field.type[1])

\* properties[name] = value: an existing key keeps its place
SetProperty(properties, name, value) ==
  IF \E i \in 1..Len(properties) : properties[i].key = name
    THEN [i \in 1..Len(properties) |->
            IF properties[i].key = name THEN Entry(name, value) ELSE properties[i]]
    ELSE Append(properties, Entry(name, value))

\* the graft with the mapping started afresh
RECURSIVE GraftFields_Afresh(_, _)
GraftFields_Afresh(properties, customFields) ==
  IF Len(customFields) = 0 THEN <<>>
  ELSE SetProperty(GraftFields_Afresh(properties, SubSeq(customFields, 1, Len(customFields) - 1)),
                   customFields[Len(customFields)].name,
                   fieldSchemaType(customFields[Len(customFields)]))

\* opts.customFields.forEach(field => data.properties[field.name] = ...)
RECURSIVE GraftFields(_, _)
GraftFields(properties, customFields) ==
  IF Len(customFields) = 0 THEN properties
  ELSE GraftFields(SetProperty(properties, Head(customFields).name,
                               fieldSchemaType(Head(customFields))),
                   Tail(customFields))

\* the graft recording the names of the custom fields as required
graftCustomFields_Required(root, customFields) ==
  IF root.type # "object" THEN root
  ELSE [root EXCEPT
          !.hasProperties = TRUE,
          !.properties = GraftFields(IF root.hasProperties THEN root.properties ELSE <<>>,
                                     customFields),
          !.hasRequired = TRUE,
          !.required = root.required
                         \o [i \in 1..Len(customFields) |-> customFields[i].name]]

\* a root that is not an object is left as it is (a warning is printed)
graftCustomFields(root, customFields) ==
  IF root.type # "object" THEN root
  ELSE [root EXCEPT
          !.hasProperties = TRUE,
          !.properties = GraftFields(IF root.hasProperties THEN root.properties ELSE <<>>,
                                     customFields)]

\* ------------------------------------------------------------------------
\* processGeneration, and mergeSchemas and dedupeUnions taken on their own
\* ------------------------------------------------------------------------
VARIABLES pc, data, schema, options, outputText, outputJson, schemas, merged,
          inputText, dedupedText, previousText

vars == <<pc, data, schema, options, outputText, outputJson, schemas, merged,
          inputText, dedupedText, previousText>>

NoOptions == [inferOptional |-> FALSE, interfaceName |-> "", output |-> "",
              customFields |-> <<>>]

GenerationOptions ==
  [inferOptional : BOOLEAN, interfaceName : {"data"}, output : {"typescript", "jsonschema"},
   customFields : SeqsUpTo(CustomFields, MaxFields)]

\* the schemas mergeSchemas is tried on: what inferSchema returns for these
MergeValues ==
  {Num(10), Num(15), Str(PlainText), Str(EmailText),
   Obj(<<Entry("a", Num(10))>>), Obj(<<Entry("a", Undefined)>>),
   Obj(<<Entry("a", Num(10)), Entry("b", Str(PlainText))>>),
   Obj(<<Entry("b", Str(PlainText)), Entry("a", Num(10))>>),
   Arr(<<Num(10)>>)}

MergeSchemas == {inferSchema(v) : v \in MergeValues}

Init ==
  /\ pc = "start"
  /\ data = Undefined
  /\ schema = SchemaType("")
  /\ options = NoOptions
  /\ outputText = <<>>
  /\ outputJson = JsonNode
  /\ schemas = <<>>
  /\ merged = SchemaType("")
  /\ inputText = <<>>
  /\ dedupedText = <<>>
  /\ previousText = <<>>

\* the inputs custom fields are tried on
GraftValues == ObjectsOver(Atoms) \cup {Arr(<<>>), Num(10)}

\* the texts dedupeUnions is tried on directly
TextTokens == {"boolean", "number", "string", "|", "[]"}

\* longest such text, in tokens
MaxText == 5

\* parseJsonString / parseJsonFile / parseCsvFile / parseApiResponse:
\* data = inferSchema(parsed input)
Parse ==
  /\ pc = "start"
  /\ \E v \in InputValues, o \in GenerationOptions :
        /\ Len(o.customFields) > 0 => v \in GraftValues
        /\ data' = v
        /\ options' = o
        /\ schema' = inferSchema(v)
  /\ pc' = "inferred"
  /\ UNCHANGED <<outputText, outputJson, schemas, merged, inputText, dedupedText, previousText>>

\* if (opts.customFields && opts.customFields.length > 0) { ... }
Graft ==
  /\ pc = "inferred"
  /\ Len(options.customFields) > 0
  /\ schema' = graftCustomFields(schema, options.customFields)
  /\ pc' = "grafted"
  /\ UNCHANGED <<data, options, outputText, outputJson, schemas, merged,
                 inputText, dedupedText, previousText>>

ReadyToGenerate ==
  \/ pc = "inferred" /\ Len(options.customFields) = 0
  \/ pc = "grafted"

GenerateTs ==
  /\ ReadyToGenerate
  /\ options.output = "typescript"
  /\ outputText' = generateTypeScript(schema, options)
  /\ pc' = "generated"
  /\ UNCHANGED <<data, schema, options, outputJson, schemas, merged,
                 inputText, dedupedText, previousText>>

GenerateJson ==
  /\ ReadyToGenerate
  /\ options.output # "typescript"
  /\ outputJson' = generateJsonSchema(schema, options)
  /\ pc' = "generated"
  /\ UNCHANGED <<data, schema, options, outputText, schemas, merged,
                 inputText, dedupedText, previousText>>

\* outputText = dedupeUnions(outputText, opts.output, opts.prettify)
DedupeTs ==
  /\ pc = "generated"
  /\ options.output = "typescript"
  /\ outputText' = dedupeUnions(outputText)
  /\ pc' = "deduped"
  /\ UNCHANGED <<data, schema, options, outputJson, schemas, merged,
                 inputText, dedupedText, previousText>>

\* the same call for format jsonschema: JSON.parse, walk, JSON.stringify
DedupeJson ==
  /\ pc = "generated"
  /\ options.output # "typescript"
  /\ outputJson' = walk(outputJson)
  /\ pc' = "deduped"
  /\ UNCHANGED <<data, schema, options, outputText, schemas, merged,
                 inputText, dedupedText, previousText>>

\* mergeSchemas applied to a list of schemas
Merge ==
  /\ pc = "start"
  /\ \E list \in SeqsUpTo(MergeSchemas, MaxMerge) :
        /\ schemas' = list
        /\ merged' = mergeSchemas(list)
  /\ pc' = "merged"
  /\ UNCHANGED <<data, schema, options, outputText, outputJson,
                 inputText, dedupedText, previousText>>

\* dedupeUnions(text, 'typescript', ...) applied to a text
DedupeText ==
  /\ pc = "start"
  /\ \E t \in SeqsUpTo(TextTokens, MaxText) :
        /\ inputText' = t
        /\ outputText' = dedupeUnions(t)
  /\ pc' = "dedupedText"
  /\ UNCHANGED <<data, schema, options, outputJson, schemas, merged,
                 dedupedText, previousText>>

Next == Parse \/ Graft \/ GenerateTs \/ GenerateJson \/ DedupeTs \/ DedupeJson
          \/ Merge \/ DedupeText

Spec == Init /\ [][Next]_vars

\* ------------------------------------------------------------------------
\* the loop of dedupeUnions, turn by turn
\* ------------------------------------------------------------------------
LoopInit ==
  /\ pc = "body"
  /\ data = Undefined
  /\ schema = SchemaType("")
  /\ options = NoOptions
  /\ outputText = <<>>
  /\ outputJson = JsonNode
  /\ schemas = <<>>
  /\ merged = SchemaType("")
  /\ inputText \in SeqsUpTo(TextTokens, MaxText)
  /\ dedupedText = inputText
  /\ previousText = <<>>

\* previousText = dedupedText; dedupedText = dedupedText.replace(...).replace(...)
LoopBody ==
  /\ pc = "body"
  /\ previousText' = dedupedText
  /\ dedupedText' = DedupePass(dedupedText)
  /\ pc' = "while"
  /\ UNCHANGED <<data, schema, options, outputText, outputJson, schemas, merged, inputText>>

\* while (previousText !== dedupedText)
LoopAgain ==
  /\ pc = "while"
  /\ previousText # dedupedText
  /\ pc' = "body"
  /\ UNCHANGED <<data, schema, options, outputText, outputJson, schemas, merged,
                 inputText, dedupedText, previousText>>

\* return dedupedText
LoopReturn ==
  /\ pc = "while"
  /\ previousText = dedupedText
  /\ outputText' = dedupedText
  /\ pc' = "returned"
  /\ UNCHANGED <<data, schema, options, outputJson, schemas, merged,
                 inputText, dedupedText, previousText>>

LoopNext == LoopBody \/ LoopAgain \/ LoopReturn

\* the loop is run to its end: no turn is left untaken for ever
LoopSpec == LoopInit /\ [][LoopNext]_vars /\ WF_vars(LoopNext)

\* ------------------------------------------------------------------------
\* Notions the properties are stated with
\* ------------------------------------------------------------------------
SeqToSet(seq) == {seq[i] : i \in 1..Len(seq)}

KeySet(s) == SeqToSet(PropertyKeys(s.properties))

Lookup(properties, k) ==
  (CHOOSE e \in SeqToSet(properties) : e.key = k).value

\* Deep structural equality of two schema nodes: same type tag, format,
\* children and required set, the fields of an object taken as an unordered
\* mapping and its required keys as a set.
RECURSIVE StructEq(_, _)
StructEq(x, y) ==
  /\ x.type = y.type
  /\ x.format = y.format
  /\ x.hasProperties = y.hasProperties
  /\ KeySet(x) = KeySet(y)
  /\ \A k \in KeySet(x) : StructEq(Lookup(x.properties, k), Lookup(y.properties, k))
  /\ SeqToSet(x.required) = SeqToSet(y.required)
  /\ Len(x.items) = Len(y.items)
  /\ \A i \in 1..Len(x.items) : StructEq(x.items[i], y.items[i])
  /\ Len(x.enum) = Len(y.enum)
  /\ \A i \in 1..Len(x.enum) : StructEq(x.enum[i], y.enum[i])

\* every node of a schema tree
RECURSIVE SubSchemas(_)
SubSchemas(s) ==
  {s} \cup UNION {SubSchemas(s.items[i]) : i \in 1..Len(s.items)}
      \cup UNION {SubSchemas(s.properties[i].value) : i \in 1..Len(s.properties)}
      \cup UNION {SubSchemas(s.enum[i]) : i \in 1..Len(s.enum)}

Inferred == pc \in {"inferred", "generated"}

\* the nodes mergeSchemas kept: the children of the union it built, or the
\* one node it returned
Kept(result) == IF result.type = "union" THEN result.enum ELSE <<result>>

\* ------------------------------------------------------------------------
\* C1
\* ------------------------------------------------------------------------
ValueKeys(v) == {v.fields[i].key : i \in 1..Len(v.fields)}

ArrayOfObjectsWithDifferingKeys(v) ==
  /\ v.kind = "array"
  /\ \A i \in 1..Len(v.elems) : v.elems[i].kind = "object"
  /\ \E i, j \in 1..Len(v.elems) : ValueKeys(v.elems[i]) # ValueKeys(v.elems[j])

DescribesAlone(n, v) ==
  /\ n.type = "object"
  /\ n.hasProperties
  /\ PropertyKeys(n.properties) = [i \in 1..Len(v.fields) |-> v.fields[i].key]
  /\ n.required = PresentKeys(v.fields)
  /\ n.hasRequired = (Len(n.required) > 0)

DifferInPropertiesOrFormat(x, y) == KeySet(x) # KeySet(y) \/ x.format # y.format

\* C2: mergeSchemas treats two nodes as duplicates exactly when they are
\* deeply structurally equal, object fields compared as an unordered
\* mapping: no two structurally equal nodes are both kept, whatever the
\* order of their keys, and two nodes that differ in property set or in
\* format are both kept.
C2_StructuralDuplicates ==
  (pc = "merged" /\ Len(schemas) > 0) =>
     /\ \A p, q \in 1..Len(Kept(merged)) :
          p # q => ~StructEq(Kept(merged)[p], Kept(merged)[q])
     /\ \A i, j \in 1..Len(schemas) :
          DifferInPropertiesOrFormat(schemas[i], schemas[j]) =>
             /\ \E p \in 1..Len(Kept(merged)) : Kept(merged)[p] = schemas[i]
             /\ \E q \in 1..Len(Kept(merged)) : Kept(merged)[q] = schemas[j]

\* ------------------------------------------------------------------------
\* C3
\* ------------------------------------------------------------------------
\* C3: in every schema tree returned by inferSchema every union node has at
\* least 2 children, pairwise structurally distinct; and when the input of
\* mergeSchemas holds exactly one distinct node, that node is returned and
\* no union is built.
C3_UnionsDistinct ==
  /\ Inferred =>
       \A n \in SubSchemas(schema) :
          n.type = "union" =>
             /\ Len(n.enum) >= 2
             /\ \A p, q \in 1..Len(n.enum) : p # q => ~StructEq(n.enum[p], n.enum[q])
  /\ (pc = "merged" /\ Len(schemas) > 0
        /\ \A i \in 1..Len(schemas) : StructEq(schemas[i], schemas[1])) =>
       merged = schemas[1]

\* ------------------------------------------------------------------------
\* C4
\* ------------------------------------------------------------------------
\* C4: in every schema tree returned by inferSchema no child of a union
\* node is itself a union node.
C4_UnionsDoNotNest ==
  Inferred =>
     \A n \in SubSchemas(schema) :
        n.type = "union" => \A i \in 1..Len(n.enum) : n.enum[i].type # "union"

\* a union below an array that is itself a child of a union
C4_Witness ==
  /\ Inferred
  /\ data = Arr(<<Arr(<<Num(10), Str(PlainText)>>), Num(10)>>)
  /\ schema.items[1].type = "union"
  /\ schema.items[1].enum[1].type = "array"
  /\ schema.items[1].enum[1].items[1].type = "union"

\* ------------------------------------------------------------------------
\* C5
\* ------------------------------------------------------------------------
\* the distinct nodes of a list, each once, in the order of first occurrence
RECURSIVE FirstOccurrences(_, _)
FirstOccurrences(list, before) ==
  IF Len(list) = 0 THEN <<>>
  ELSE IF \E i \in 1..Len(before) : StructEq(before[i], Head(list))
    THEN FirstOccurrences(Tail(list), before)
    ELSE <<Head(list)>> \o FirstOccurrences(Tail(list), Append(before, Head(list)))

\* C5: for a list with at least two distinct nodes mergeSchemas returns a
\* union whose children are exactly the distinct input nodes, each once, in
\* the order of their first occurrence in the list.
C5_FirstSeenOrder ==
  (pc = "merged" /\ Len(FirstOccurrences(schemas, <<>>)) >= 2) =>
     /\ merged.type = "union"
     /\ merged.hasEnum
     /\ merged.enum = FirstOccurrences(schemas, <<>>)

\* ------------------------------------------------------------------------
\* C6
\* ------------------------------------------------------------------------
\* C6: mergeSchemas([x]) is x, and so inferSchema of a one-element array is
\* an array node whose items is the node inferred from that element.
C6_SingletonIdentity ==
  /\ (pc = "merged" /\ Len(schemas) = 1) => merged = schemas[1]
  /\ (Inferred /\ data.kind = "array" /\ Len(data.elems) = 1) =>
       /\ schema.type = "array"
       /\ schema.hasItems
       /\ schema.items = <<inferSchema(data.elems[1])>>

C6_Witness ==
  /\ pc = "merged"
  /\ Len(schemas) = 1
  /\ schemas[1].type = "object"
  /\ merged = schemas[1]

\* ------------------------------------------------------------------------
\* C7
\* ------------------------------------------------------------------------
\* pc = "merged" is the state in which mergeSchemas has returned its result
\* to the caller; a call that throws does not reach it.

\* C7 as stated: unifying an empty list fails with an error; mergeSchemas
\* never returns a node for an empty list.
C7_EmptyInputFails == ~(pc = "merged" /\ Len(schemas) = 0)

\* C7 amended: unifying an empty list raises no error; mergeSchemas returns
\* the placeholder node of type any, with no other field set.
C7_EmptyInputFallback ==
  (pc = "merged" /\ Len(schemas) = 0) => merged = SchemaType("any")

C7_Witness ==
  /\ pc = "merged"
  /\ Len(schemas) = 0
  /\ merged.type = "any"

\* ------------------------------------------------------------------------
\* C8
\* ------------------------------------------------------------------------
GeneratedTs == pc = "generated" /\ options.output = "typescript"

GeneratedJson == pc = "generated" /\ options.output = "jsonschema"

\* the properties of a schema tree in the order the renderer meets them,
\* each with whether it is to be marked: inferOptional is on and the key is
\* not in the required set of its object
RECURSIVE PropertyMarks(_, _)
PropertyMarks(s, inferOptional) ==
  Concat([i \in 1..Len(s.items) |-> PropertyMarks(s.items[i], inferOptional)])
  \o Concat([i \in 1..Len(s.properties) |->
       <<[key |-> s.properties[i].key,
          optional |-> inferOptional /\ s.properties[i].key \notin SeqToSet(s.required)]>>
       \o PropertyMarks(s.properties[i].value, inferOptional)])
  \o Concat([i \in 1..Len(s.enum) |-> PropertyMarks(s.enum[i], inferOptional)])

\* the properties a text declares, in order: the key before each ":" and
\* whether a "?" stands between them
RECURSIVE EmittedMarks(_, _)
EmittedMarks(text, i) ==
  IF i > Len(text) THEN <<>>
  ELSE (IF text[i] = ":"
          THEN <<[key |-> IF text[i - 1] = "?" THEN text[i - 2] ELSE text[i - 1],
                  optional |-> text[i - 1] = "?"]>>
          ELSE <<>>)
       \o EmittedMarks(text, i + 1)

\* C8: the interface renderer emits "?" after a property key if and only if
\* inferOptional is true and the key is not in the required set of its
\* object node, at every depth; with inferOptional false no "?" is emitted.
C8_OptionalMarker ==
  GeneratedTs =>
     /\ EmittedMarks(outputText, 1) = PropertyMarks(schema, options.inferOptional)
     /\ ~options.inferOptional => "?" \notin SeqToSet(outputText)

C8_Witness ==
  /\ GeneratedTs
  /\ options.inferOptional
  /\ data = Obj(<<Entry("a", Obj(<<Entry("a", Num(10)), Entry("b", Undefined)>>))>>)
  /\ outputText = <<"interface", "data", "{", "a", ":", "{", "a", ":", "number", ";",
                    "b", "?", ":", "null", ";", "}", ";", "}">>

\* ------------------------------------------------------------------------
\* C9
\* ------------------------------------------------------------------------
\* does the document out list, for schema node s and every object node
\* below it, the required keys the policy asks for; an absent required key
\* is the empty list
RECURSIVE RequiredPolicy(_, _, _)
RequiredPolicy(s, out, inferOptional) ==
  /\ s.type = "object" =>
       /\ out.hasProperties
       /\ PropertyKeys(out.properties) = PropertyKeys(s.properties)
       /\ \A i \in 1..Len(s.properties) :
            RequiredPolicy(s.properties[i].value, out.properties[i].value, inferOptional)
       /\ inferOptional => out.required = s.required
       /\ ~inferOptional => out.required = PropertyKeys(s.properties)
       /\ out.hasRequired = (Len(out.required) > 0)
  /\ s.type = "array" =>
       /\ out.hasItems
       /\ RequiredPolicy(s.items[1], out.items[1], inferOptional)
  /\ s.type = "union" =>
       /\ out.hasAnyOf
       /\ Len(out.anyOf) = Len(s.enum)
       /\ \A i \in 1..Len(s.enum) : RequiredPolicy(s.enum[i], out.anyOf[i], inferOptional)

\* C9: the JSON-Schema renderer lists, for every object node at any depth
\* (children of unions too), exactly the recorded required set when
\* inferOptional is true, the key left out when the set is empty, and all
\* the keys of properties when inferOptional is false, whatever the
\* recorded required set.
C9_RequiredPolicy ==
  GeneratedJson => RequiredPolicy(schema, outputJson, options.inferOptional)

\* an object child of a union with no recorded required key, yet "b" listed
C9_Witness ==
  /\ GeneratedJson
  /\ ~options.inferOptional
  /\ data = Arr(<<Obj(<<Entry("a", Num(10))>>), Obj(<<Entry("b", Undefined)>>)>>)
  /\ ~schema.items[1].enum[2].hasRequired
  /\ outputJson.items[1].anyOf[2].required = <<"b">>

\* ------------------------------------------------------------------------
\* C10
\* ------------------------------------------------------------------------
\* the format of every string node of a tree, in the order the renderer
\* meets them
RECURSIVE StringFormats(_)
StringFormats(s) ==
  (IF s.type = "string" THEN <<s.format>> ELSE <<>>)
  \o Concat([i \in 1..Len(s.items) |-> StringFormats(s.items[i])])
  \o Concat([i \in 1..Len(s.properties) |-> StringFormats(s.properties[i].value)])
  \o Concat([i \in 1..Len(s.enum) |-> StringFormats(s.enum[i])])

\* the words a text renders string nodes with
StringWords(text) == SelectSeq(text, LAMBDA t : t \in {"string", "Date"})

\* C10 as stated: the interface renderer renders every string node as the
\* string keyword, whatever its format.
C10_FormatNeverSurfaced ==
  GeneratedTs =>
     StringWords(outputText) = [i \in 1..Len(StringFormats(schema)) |-> "string"]

\* C10 amended: the interface renderer renders a string node of format
\* date-time as Date, and every other string node (no format, email, uuid)
\* as the string keyword.
C10_DateTimeSurfaced ==
  GeneratedTs =>
     StringWords(outputText) =
        [i \in 1..Len(StringFormats(schema)) |->
           IF StringFormats(schema)[i] = "date-time" THEN "Date" ELSE "string"]

C10_Witness ==
  /\ GeneratedTs
  /\ data = Arr(<<Str(DateTimeText), Str(EmailText), Str(UuidText)>>)
  /\ outputText = <<"interface", "data", "Date", "|", "string", "|", "string", "[]">>

\* ------------------------------------------------------------------------
\* C11
\* ------------------------------------------------------------------------
\* the number of object nodes of a tree that have no property
RECURSIVE CountEmptyObjects(_)
CountEmptyObjects(s) ==
  LET Sum(f, n) == LET RECURSIVE Upto(_)
                       Upto(k) == IF k = 0 THEN 0 ELSE f[k] + Upto(k - 1)
                   IN Upto(n)
  IN (IF s.type = "object" /\ Len(s.properties) = 0 THEN 1 ELSE 0)
     + Sum([i \in 1..Len(s.items) |-> CountEmptyObjects(s.items[i])], Len(s.items))
     + Sum([i \in 1..Len(s.properties) |-> CountEmptyObjects(s.properties[i].value)],
           Len(s.properties))
     + Sum([i \in 1..Len(s.enum) |-> CountEmptyObjects(s.enum[i])], Len(s.enum))

Occurrences(tokens, t) == Cardinality({i \in 1..Len(tokens) : tokens[i] = t})

\* C11: inferSchema({}) is an object node with empty properties and an
\* empty required set; and the interface renderer renders every object node
\* that has no properties as Record<string, any>, never as the empty
\* literal "{ }".
C11_EmptyObjectOpenMapping ==
  /\ (pc = "inferred" /\ data = Obj(<<>>)) =>
       /\ schema.type = "object"
       /\ schema.properties = <<>>
       /\ schema.required = <<>>
  /\ GeneratedTs =>
       /\ \A i \in 1..(Len(outputText) - 1) :
            ~(outputText[i] = "{" /\ outputText[i + 1] = "}")
       /\ Occurrences(outputText, "Record") = CountEmptyObjects(schema)

\* ------------------------------------------------------------------------
\* C12
\* ------------------------------------------------------------------------
\* C12 as stated: inferSchema([]) is an array node with one child, the
\* placeholder of type any, and the JSON-Schema renderer renders it as
\* {type: array, items: {}}, items having no key.
C12_EmptyArrayItemsNoKey ==
  /\ (pc = "inferred" /\ data = Arr(<<>>)) => schema = ArraySchema(SchemaType("any"))
  /\ (GeneratedJson /\ data = Arr(<<>>)) =>
       /\ outputJson.type = "array"
       /\ outputJson.hasItems
       /\ outputJson.items = <<JsonNode>>

\* C12 amended: inferSchema([]) is an array node with one child, the
\* placeholder of type any, and the JSON-Schema renderer renders it as
\* {type: array, items: {description: "Represents type: any"}}: items has no
\* type keyword and no constraint, its only key is the description.
C12_EmptyArrayItemsDescribed ==
  /\ (pc = "inferred" /\ data = Arr(<<>>)) => schema = ArraySchema(SchemaType("any"))
  /\ (GeneratedJson /\ data = Arr(<<>>)) =>
       /\ outputJson.type = "array"
       /\ outputJson.hasItems
       /\ outputJson.items = <<[JsonNode EXCEPT !.description = "Represents type: any"]>>

C12_Witness ==
  /\ GeneratedJson
  /\ data = Arr(<<>>)
  /\ schema.items[1].type = "any"
  /\ ~outputJson.items[1].hasType
  /\ outputJson.items[1].description = "Represents type: any"

\* ------------------------------------------------------------------------
\* C13
\* ------------------------------------------------------------------------
DedupedTs == pc = "deduped" /\ options.output = "typescript"

DedupedJson == pc = "deduped" /\ options.output = "jsonschema"

IsScalar(v) == v.kind \notin {"array", "object"}

\* an array of scalars that inferPrimitiveSchema does not all classify alike
ArrayOfMixedScalars(v) ==
  /\ v.kind = "array"
  /\ \A i \in 1..Len(v.elems) : IsScalar(v.elems[i])
  /\ \E i, j \in 1..Len(v.elems) : inferSchema(v.elems[i]) # inferSchema(v.elems[j])

\* the type names of the members of a union, each once, in lexicographic order
SortedNames(union, opts) ==
  LET names == UNION {SeqToSet(generateTypeScriptFromSchema(union.enum[i], opts)) :
                        i \in 1..Len(union.enum)}
  IN SelectSeq(WordOrder, LAMBDA w : w \in names)

Permuted(seq, p) == [i \in 1..Len(seq) |-> seq[p[i]]]

\* C13: for an array of scalars of at least two different types inferSchema
\* returns an array wrapping a union with one child per distinct classified
\* type, and the interface text after rendering and dedupeUnions is the type
\* names of the members, each once, in lexicographic order, joined by "|",
\* in parentheses and followed by "[]"; the text is the same for every
\* permutation of the elements.
C13_SortedParenthesisedUnion ==
  (DedupedTs /\ ArrayOfMixedScalars(data)) =>
     /\ schema.type = "array"
     /\ schema.items[1].type = "union"
     /\ SeqToSet(schema.items[1].enum) =
          {inferSchema(data.elems[i]) : i \in 1..Len(data.elems)}
     /\ Len(schema.items[1].enum) = Cardinality(SeqToSet(schema.items[1].enum))
     /\ outputText =
          <<"interface", options.interfaceName, "(">>
          \o Join([i \in 1..Len(SortedNames(schema.items[1], options)) |->
                     <<SortedNames(schema.items[1], options)[i]>>], <<"|">>)
          \o <<")", "[]">>
     /\ \A p \in Permutations(1..Len(data.elems)) :
          dedupeUnions(generateTypeScript(inferSchema(Arr(Permuted(data.elems, p))), options))
            = outputText

\* ------------------------------------------------------------------------
\* C14
\* ------------------------------------------------------------------------
\* For an array of scalars the text is the heading, the chain of the one
\* union of the schema, and "[]".
ChainOfArray(tokens) == SubSeq(tokens, 3, Len(tokens) - 1)

\* C14: after the typescript pass of dedupeUnions over the rendered text no
\* union chain holds the same type name twice, adjacent or not; stated for
\* the arrays of scalars, whose text holds the chain of one union.
C14_NoRepeatedName ==
  (DedupedTs /\ data.kind = "array" /\ \A i \in 1..Len(data.elems) : IsScalar(data.elems[i])) =>
     \A i, j \in 1..Len(ChainOfArray(outputText)) :
        (i # j /\ ChainOfArray(outputText)[i] = ChainOfArray(outputText)[j]) =>
           ChainOfArray(outputText)[i] = "|"

\* ------------------------------------------------------------------------
\* C15
\* ------------------------------------------------------------------------
\* C15: the loop of dedupeUnions (format typescript) ends for every text:
\* the turns of collapsing repeated names and swapping pairs that are out of
\* order reach a text the next turn leaves as it is, and the text is
\* returned; the texts do not go round for ever.
C15_LoopTerminates == <>(pc = "returned" /\ DedupePass(outputText) = outputText)

\* three turns: swap, then collapse, then no change
C15_Witness ==
  /\ pc = "returned"
  /\ inputText = <<"number", "|", "boolean", "|", "number">>
  /\ outputText = <<"boolean", "|", "number">>

\* ------------------------------------------------------------------------
\* C16
\* ------------------------------------------------------------------------
\* C16: dedupeUnions (format typescript) is idempotent: applied to a text it
\* has returned, for a rendered text or any other, it returns that text.
C16_DedupeIdempotent ==
  (DedupedTs \/ pc = "dedupedText") => dedupeUnions(outputText) = outputText

\* a text that takes more than one turn of the loop
C16_Witness ==
  /\ pc = "dedupedText"
  /\ inputText = <<"number", "|", "number", "|", "number">>
  /\ outputText = <<"number">>
  /\ DedupePass(inputText) # outputText

\* ------------------------------------------------------------------------
\* C17
\* ------------------------------------------------------------------------
\* every node of a document
RECURSIVE DocNodes(_)
DocNodes(n) ==
  {n} \cup UNION {DocNodes(n.items[i]) : i \in 1..Len(n.items)}
      \cup UNION {DocNodes(n.properties[i].value) : i \in 1..Len(n.properties)}
      \cup UNION {DocNodes(n.anyOf[i]) : i \in 1..Len(n.anyOf)}

C18_RequiredWithinProperties ==
  pc \in {"inferred", "grafted", "generated", "deduped"} =>
     \A n \in SubSchemas(schema) :
        n.type = "object" => SeqToSet(n.required) \subseteq KeySet(n)

\* one custom field overwrites a required property, the other adds a key
C18_Witness ==
  /\ pc = "grafted"
  /\ data = Obj(<<Entry("a", Num(10)), Entry("b", Undefined)>>)
  /\ options.customFields = <<CustomField("a", <<"object">>), CustomField("c", <<"string">>)>>
  /\ schema.required = <<"a">>
  /\ PropertyKeys(schema.properties) = <<"a", "b", "c">>
  /\ schema.properties[1].value.type = "object"

\* ------------------------------------------------------------------------
\* C19
\* ------------------------------------------------------------------------
\* C19: mergeSchemas keeps the same number of members whatever the order of
\* the list: for every permutation of the list the result is one node in
\* both cases, or a union in both, with the same number of children and the
\* same set of nodes as children.
C19_OrderInsensitive ==
  pc = "merged" =>
     \A p \in Permutations(1..Len(schemas)) :
        LET other == mergeSchemas(Permuted(schemas, p))
        IN /\ (other.type = "union") = (merged.type = "union")
           /\ Len(Kept(other)) = Len(Kept(merged))
           /\ SeqToSet(Kept(other)) = SeqToSet(Kept(merged))

\* a list with a repeated node that is not next to its first occurrence,
\* and a permutation of it whose union lists the children in another order
C19_Witness ==
  /\ pc = "merged"
  /\ Len(schemas) = 3
  /\ schemas[1] = schemas[3]
  /\ schemas[1] # schemas[2]
  /\ merged.enum = <<schemas[1], schemas[2]>>
  /\ mergeSchemas(<<schemas[2], schemas[1], schemas[3]>>).enum = <<schemas[2], schemas[1]>>

\* ------------------------------------------------------------------------
\* C20
\* ------------------------------------------------------------------------
\* The union chains of a text: the text is cut at every punctuation mark
\* but "[]"; what stands between two cuts is a member, a type name with its
\* "[]" suffixes; members that only "|" separates form one chain, given as
\* the set of its members.
RECURSIVE Chains(_, _, _)
Chains(tokens, member, chain) ==
  IF Len(tokens) = 0 THEN <<chain \cup {member}>>
  ELSE IF Head(tokens) = "|"
    THEN Chains(Tail(tokens), <<>>, chain \cup {member})
  ELSE IF Head(tokens) \in Punctuation \ {"[]"}
    THEN <<chain \cup {member}>> \o Chains(Tail(tokens), <<>>, {})
  ELSE Chains(Tail(tokens), Append(member, Head(tokens)), chain)

\* C20: the typescript pass of dedupeUnions drops and alters no distinct
\* member of a union: every chain of the rendered text of an inferred schema
\* has the same set of members, each with the same "[]" suffixes, before and
\* after the pass; only repeated members go and members change place.  A
\* union of a type and an array of that type keeps both.
C20_MembersPreserved ==
  DedupedTs =>
     Chains(outputText, <<>>, {}) = Chains(generateTypeScript(schema, options), <<>>, {})

\* ------------------------------------------------------------------------
\* C21
\* ------------------------------------------------------------------------
FieldNames(customFields) == {customFields[i].name : i \in 1..Len(customFields)}

\* the last custom field of a name is the one whose node stays
LastFieldNamed(customFields, name) ==
  customFields[CHOOSE i \in 1..Len(customFields) :
                 /\ customFields[i].name = name
                 /\ \A j \in (i + 1)..Len(customFields) : customFields[j].name # name]

\* what the step from root before to root after may change, given the
\* custom fields: nothing when before is not an object; else only the
\* properties mapping, where the keys of before keep their place, the keys
\* no custom field names keep their node, and each named key holds the node
\* of its custom field
OnlyGrafts(before, after, customFields) ==
  IF before.type # "object" THEN after = before
  ELSE /\ after = [before EXCEPT !.hasProperties = TRUE, !.properties = after.properties]
       /\ after.required = before.required
       /\ after.hasRequired = before.hasRequired
       /\ SubSeq(PropertyKeys(after.properties), 1, Len(before.properties))
            = PropertyKeys(before.properties)
       /\ KeySet(after) = KeySet(before) \cup FieldNames(customFields)
       /\ Cardinality(KeySet(after)) = Len(after.properties)
       /\ \A k \in KeySet(before) \ FieldNames(customFields) :
            Lookup(after.properties, k) = Lookup(before.properties, k)
       /\ \A k \in FieldNames(customFields) :
            Lookup(after.properties, k) = fieldSchemaType(LastFieldNamed(customFields, k))

GraftedObject ==
  /\ pc = "generated"
  /\ Len(options.customFields) > 0
  /\ schema.type = "object"

\* C21: the graft of the custom fields only adds or overwrites entries of
\* the properties of the root object: the required set of the root and the
\* properties no custom field names stay as they were, and a root that is
\* not an object is left unchanged.  So a grafted field whose name was not
\* required is marked "?" by the interface renderer when inferOptional is
\* true, and is listed in required by the JSON-Schema renderer when
\* inferOptional is false.
C21_GraftFrame ==
  /\ [][Graft => OnlyGrafts(schema, schema', options.customFields)]_vars
  /\ [](GraftedObject =>
          \A k \in FieldNames(options.customFields) \ SeqToSet(inferSchema(data).required) :
             /\ (options.output = "typescript" /\ options.inferOptional) =>
                  \E i \in 1..Len(EmittedMarks(outputText, 1)) :
                     EmittedMarks(outputText, 1)[i] = [key |-> k, optional |-> TRUE]
             /\ (options.output = "jsonschema" /\ ~options.inferOptional) =>
                  k \in SeqToSet(outputJson.required))

\* a new field next to a required and an optional property
C21_Witness ==
  /\ GraftedObject
  /\ options.output = "typescript"
  /\ options.inferOptional
  /\ data = Obj(<<Entry("a", Num(10)), Entry("b", Undefined)>>)
  /\ options.customFields = <<CustomField("c", <<"string">>)>>
  /\ schema.required = <<"a">>
  /\ outputText = <<"interface", "data", "{", "a", ":", "number", ";",
                    "b", "?", ":", "null", ";", "c", "?", ":", "string", ";", "}">>

====
